---- MODULE Spec2Model ----
(***************************************************************************)
(* Model of filament's FScene (src/filament/src/Scene.cpp): the scene's    *)
(* entity set, the skybox registration, the two per-frame SoA buffers      *)
(* (RenderableSoA, LightSoA) rebuilt by prepare, and the truncation and    *)
(* GPU packing done by prepareLights.                                      *)
(*                                                                         *)
(* The world is one-dimensional: a position is an integer, a direction is  *)
(* a signed integer, length(a - b) is |a - b|.  The component managers     *)
(* (renderable, transform, light) are external collaborators; their        *)
(* content is a fixed table over the entity universe, and only liveness    *)
(* (EntityManager) changes while the scene runs.                           *)
(***************************************************************************)
EXTENDS Integers, Sequences, FiniteSets, TLC

\* ---------------------------------------------------------------- bounds

\* Size of the entity universe.
NumEntities == 6
\* Largest entity set the scene is driven to.
MaxSceneSize == 4
\* Number of entities the EntityManager destroys in one behaviour.
MaxDestroyed == 1
\* Scene edits (addEntity, remove, setSkybox, destroy) between two prepare calls;
\* the edits that build the scene before the first prepare are not counted.
MaxEditsPerFrame == 1
\* Camera positions handed to prepareLights are 0..MaxCamera.
MaxCamera == 1
\* Largest value a clobbered slot of the distance scratch array can hold.
MaxDistance == 6
\* Capacity of the GPU light buffer, scaled down from the build's value so
\* that the truncation branch of prepareLights is reachable.
CONFIG_MAX_LIGHT_COUNT == 2
\* Largest entity-set size of the size-only model of prepare.
MaxCapEntities == 17

\* ------------------------------------------------------ program constants

DIRECTIONAL_LIGHTS_COUNT == 1

Entity == 1..NumEntities
\* A null component instance, the null skybox.
NullInstance == 0
NullSkybox == "null"
Skyboxes == {"A", "B"}

\* ------------------------------------------------- external collaborators
\* The component table:
\*   1  renderable with a transform            (the entity of skybox A)
\*   2  renderable without a transform, directional light of intensity 5
\*                                             (the entity of skybox B)
\*   3  renderable with a transform, directional light of intensity 10
\*   4  point light          at 2, radius 1
\*   5  spot light           at 4, radius 1
\*   6  point light with IES at 7, radius 2
\*   7, ...  point lights at 3 * e, radius 0
\* FSkybox::getEntity
SkyboxEntity(s) == IF s = "A" THEN 1 ELSE 2

\* rcm.getInstance(e)
RenderableInstance(e) == IF e \in {1, 2, 3} THEN e ELSE NullInstance
\* tcm.getInstance(e)
TransformInstance(e) == IF e # 2 THEN e ELSE NullInstance
\* lcm.getInstance(e)
LightInstance(e) == IF e >= 2 THEN e ELSE NullInstance
isDirectionalLight(li) == li \in {2, 3}
isPointLight(li) == li \notin {2, 3, 5}
isIESLight(li) == li = 6
getIntensity(li) == CASE li = 2 -> 5 [] li = 3 -> 10 [] OTHER -> li
getLocalDirection(li) == IF li % 2 = 0 THEN 2 ELSE -3
\* world position and radius of a local light
getWorldPosition(li) == CASE li = 4 -> 2 [] li = 5 -> 4 [] li = 6 -> 7 [] OTHER -> 3 * li
getRadius(li) == CASE li = 4 -> 1 [] li = 5 -> 1 [] li = 6 -> 2 [] OTHER -> 0

\* ------------------------------------------------------------------ math
Abs(x) == IF x < 0 THEN -x ELSE x
Max(a, b) == IF a >= b THEN a ELSE b
Min(a, b) == IF a <= b THEN a ELSE b
\* normalize() of a one-dimensional vector
normalize(d) == IF d > 0 THEN 1 ELSE IF d < 0 THEN -1 ELSE 0

\* ------------------------------------------------------------- the state
VARIABLES
    mEntities,          \* FScene::mEntities, the scene's entity set
    mSkybox,            \* FScene::mSkybox
    alive,              \* EntityManager: the entities that are alive
    mRenderableData,    \* RenderableSoA rows
    renderableCapacity, \* RenderableSoA capacity
    mLightData,         \* LightSoA rows; row 0 of the code is element 1 here
    lightCapacity,      \* LightSoA capacity
    lastOp,             \* the operation that returned last
    editsInFrame,       \* scene edits since the last prepare
    rt,                 \* the scene before setSkybox(A), while A / null follow
    prev,               \* what LightSoA held when the last prepare began
    plPre,              \* LightSoA and camera at the last prepareLights call
    distIdx,            \* indices of distances[] used by prepareLights since
                        \* the last prepare
    gpuWritten,         \* GPU light slots written by the last prepareLights
    gpuDirty,           \* range given to invalidate() by the last prepareLights
    capPc, capN, capIter, capScene, capLight, capSceneCap, capLightCap, capUnsafeOk

sceneVars == <<mEntities, mSkybox, alive, mRenderableData, renderableCapacity,
               mLightData, lightCapacity, lastOp, editsInFrame, rt, prev, plPre, distIdx,
               gpuWritten, gpuDirty>>
capVars == <<capPc, capN, capIter, capScene, capLight, capSceneCap, capLightCap,
             capUnsafeOk>>
vars == <<sceneVars, capVars>>

\* ------------------------------------------------- StructureOfArrays
\* A row of LightSoA whose columns are all value-initialised.
ZeroLightRow == [positionRadius |-> <<0, 0>>, direction |-> 0, li |-> NullInstance]
\* clear(): logical length zero, storage kept.
Clear(soa) == <<>>
\* resize(n): truncate, or extend with zeroed rows, to exactly n rows.
Resize(soa, n) ==
    IF n <= Len(soa) THEN SubSeq(soa, 1, n)
    ELSE soa \o [i \in 1..(n - Len(soa)) |-> ZeroLightRow]
\* push_back_unsafe(row)
PushBackUnsafe(soa, row) == Append(soa, row)
\* elementAt<...>(i) = ..., for every column of row i (0-based); a row past the
\* logical length is storage that no reader of the rows sees.
SetRow(soa, i, row) ==
    IF i + 1 <= Len(soa)
    THEN SubSeq(soa, 1, i) \o <<row>> \o SubSeq(soa, i + 2, Len(soa))
    ELSE soa
\* capacity() < capacity ? setCapacity(capacity)
GrowCapacity(current, capacity) == IF current < capacity THEN capacity ELSE current

\* ------------------------------------------------------ FScene::prepare
\* capacity = ((size + 0xF) & ~0xF) + 1
\* (variant: the extra entry is forgotten)
RequiredCapacity_noGuard(size) == (size + 15) - ((size + 15) % 16)
RequiredCapacity(size) == ((size + 15) - ((size + 15) % 16)) + 1

\* lightData.clear(); ...; lightData.resize(DIRECTIONAL_LIGHTS_COUNT)
\* (variants: clear() is forgotten; resize() is forgotten)
ResetLightData_noClear(lightData) == Resize(lightData, DIRECTIONAL_LIGHTS_COUNT)
ResetLightData_noReserve(lightData) == Clear(lightData)
ResetLightData(lightData) == Resize(Clear(lightData), DIRECTIONAL_LIGHTS_COUNT)

\* if (ri && ti) sceneData.push_back_unsafe(ri, worldTransform, ...)
\* (variant: the transform is not tested)
GatherRenderable_noTransformCheck(st, ri, ti) ==
    IF ri # NullInstance
    THEN [st EXCEPT !.sceneData = PushBackUnsafe(@, [ri |-> ri, worldTransform |-> ti])]
    ELSE st
GatherRenderable(st, ri, ti) ==
    IF ri # NullInstance /\ ti # NullInstance
    THEN [st EXCEPT !.sceneData = PushBackUnsafe(@, [ri |-> ri, worldTransform |-> ti])]
    ELSE st

\* the directional branch: row 0 is overwritten when the intensity is at least
\* maxIntensity, which the loop never assigns after its initialisation to 0
StoreDirectional(st, li) ==
    IF getIntensity(li) >= st.maxIntensity
    THEN [st EXCEPT !.lightData =
              SetRow(@, 0, [positionRadius |-> <<0, 0>>,
                            direction |-> normalize(getLocalDirection(li)),
                            li |-> li])]
    ELSE st

\* the local-light branch: one row appended
AppendLocal(st, li) ==
    LET d == IF ~isPointLight(li) \/ isIESLight(li)
             THEN normalize(getLocalDirection(li)) ELSE 0
    IN [st EXCEPT !.lightData =
            PushBackUnsafe(@, [positionRadius |-> <<getWorldPosition(li), getRadius(li)>>,
                               direction |-> d, li |-> li])]

\* the light branch (variant: a directional light is appended like a local one)
GatherLight_allLocal(st, li) == AppendLocal(st, li)
GatherLight(st, li) ==
    IF isDirectionalLight(li) THEN StoreDirectional(st, li) ELSE AppendLocal(st, li)

\* the body of the loop over the entities
PrepareEntity(st, e) ==
    IF e \notin alive THEN st
    ELSE LET ri == RenderableInstance(e)
             li == LightInstance(e)
             ti == TransformInstance(e)
         IN IF ri = NullInstance /\ li = NullInstance THEN st
            ELSE LET st1 == GatherRenderable(st, ri, ti)
                 IN IF li # NullInstance THEN GatherLight(st1, li) ELSE st1

RECURSIVE PrepareLoop(_, _)
PrepareLoop(st, order) ==
    IF order = <<>> THEN st
    ELSE PrepareLoop(PrepareEntity(st, Head(order)), Tail(order))

\* the orders in which the entity set can be iterated
RECURSIVE Orders(_)
Orders(S) ==
    IF S = {} THEN {<<>>}
    ELSE UNION {{<<e>> \o t : t \in Orders(S \ {e})} : e \in S}

RtNone == [stage |-> 0, entities |-> {}, skybox |-> NullSkybox, arg |-> NullSkybox]
PrevNone == [directional |-> FALSE, truncated |-> FALSE]
PlNone == [lightData |-> <<>>, camera |-> 0]
DirtyNone == [offset |-> 0, count |-> 0]

Prepare ==
    \E order \in Orders(mEntities) :
        LET capacity == RequiredCapacity(Cardinality(mEntities))
            st0 == [sceneData |-> Clear(mRenderableData),
                    lightData |-> ResetLightData(mLightData),
                    maxIntensity |-> 0]
            st == PrepareLoop(st0, order)
        IN /\ mRenderableData' = st.sceneData
           /\ mLightData' = st.lightData
           /\ renderableCapacity' = GrowCapacity(renderableCapacity, capacity)
           /\ lightCapacity' = GrowCapacity(lightCapacity, capacity)
           /\ prev' = [directional |-> Len(mLightData) >= 1
                                       /\ mLightData[1].li # NullInstance,
                       truncated |-> distIdx # {}]
           /\ lastOp' = "prepare" /\ editsInFrame' = 0
           /\ rt' = RtNone /\ plPre' = PlNone /\ distIdx' = {}
           /\ gpuWritten' = {} /\ gpuDirty' = DirtyNone
           /\ UNCHANGED <<mEntities, mSkybox, alive, capVars>>

\* ------------------------------------------------ FScene::prepareLights
\* max(0, length(position - s.xyz) - s.w)
BoundaryDistance(camera, s) == Max(0, Abs(camera - s[1]) - s[2])

\* What a read of distances[i] returns after distances[i] = d was executed.
\* The array has CONFIG_MAX_LIGHT_COUNT elements: a slot at or past that index
\* is outside the object, and the read returns d or whatever the bytes there
\* were clobbered with (clobber >= 0).
DistanceRead(i, d, clobber) ==
    IF i < CONFIG_MAX_LIGHT_COUNT \/ clobber < 0 THEN d ELSE clobber

\* the key assignments the sort can see, for rows 1..c-1 (0-based)
DistanceKeys(camera, lightData) ==
    LET c == Len(lightData)
        idx == DIRECTIONAL_LIGHTS_COUNT..(c - 1)
        outside == {i \in idx : i >= CONFIG_MAX_LIGHT_COUNT}
        written(i) == BoundaryDistance(camera, lightData[i + 1].positionRadius)
    IN {[i \in idx |-> DistanceRead(i, written(i), IF i \in outside THEN g[i] ELSE -1)] :
            g \in [outside -> -1..MaxDistance]}

\* std::sort over the zipped (row, distance) range [1, c): the rows ordered by
\* ascending key, in any order among equal keys
SortedByKey(lightData, k) ==
    LET c == Len(lightData)
        idx == DIRECTIONAL_LIGHTS_COUNT..(c - 1)
    IN {<<lightData[1]>> \o [j \in 1..(c - 1) |-> lightData[o[j] + 1]] :
            o \in {p \in Orders(idx) :
                      \A a, b \in 1..(c - 1) : a < b => k[p[a]] <= k[p[b]]}}

\* resize(std::min(size, CONFIG_MAX_LIGHT_COUNT + DIRECTIONAL_LIGHTS_COUNT))
TruncatedSize(size) == Min(size, CONFIG_MAX_LIGHT_COUNT + DIRECTIONAL_LIGHTS_COUNT)

\* the rows left by the truncation branch, or the rows untouched
TruncatedLights(camera, lightData) ==
    IF Len(lightData) > CONFIG_MAX_LIGHT_COUNT + DIRECTIONAL_LIGHTS_COUNT
    THEN UNION {{Resize(sorted, TruncatedSize(Len(sorted))) :
                    sorted \in SortedByKey(lightData, k)} :
                k \in DistanceKeys(camera, lightData)}
    ELSE {lightData}

\* the indices of distances[] the truncation branch writes and sorts
DistanceIndices(lightData) ==
    IF Len(lightData) > CONFIG_MAX_LIGHT_COUNT + DIRECTIONAL_LIGHTS_COUNT
    THEN DIRECTIONAL_LIGHTS_COUNT..(Len(lightData) - 1)
    ELSE {}

\* the slots getLightParameters(i - DIRECTIONAL_LIGHTS_COUNT) is called for
WrittenSlots(lightData) ==
    {i - DIRECTIONAL_LIGHTS_COUNT : i \in DIRECTIONAL_LIGHTS_COUNT..(Len(lightData) - 1)}

\* gpuLightData.invalidate(0, lightData.size())
InvalidatedRange(lightData) == [offset |-> 0, count |-> Len(lightData)]

PrepareLights ==
    \E camera \in 0..MaxCamera :
        \E lights \in TruncatedLights(camera, mLightData) :
            /\ mLightData' = lights
            /\ distIdx' = DistanceIndices(mLightData)
            /\ gpuWritten' = WrittenSlots(lights)
            /\ gpuDirty' = InvalidatedRange(lights)
            /\ plPre' = [lightData |-> mLightData, camera |-> camera]
            /\ lastOp' = "prepareLights"
            /\ rt' = RtNone /\ prev' = PrevNone
            /\ UNCHANGED <<mEntities, mSkybox, alive, mRenderableData,
                           renderableCapacity, lightCapacity, editsInFrame, capVars>>

\* ------------------------------------ addEntity, remove, setSkybox
Insert(entities, entity) == entities \cup {entity}
Erase(entities, entity) == entities \ {entity}

\* the entity set after setSkybox(skybox) with old registered: if (old)
\* remove(old->getEntity()); if (new) addEntity(new->getEntity())
\* (variant: the replaced skybox's entity is not removed)
SkyboxMembership_keepOld(entities, old, new) ==
    IF new # NullSkybox THEN Insert(entities, SkyboxEntity(new)) ELSE entities
SkyboxMembership(entities, old, new) ==
    LET removed == IF old # NullSkybox THEN Erase(entities, SkyboxEntity(old))
                   ELSE entities
    IN IF new # NullSkybox THEN Insert(removed, SkyboxEntity(new)) ELSE removed

\* prepare has not run yet, or the frame's budget of edits is not used up
\* (prepare is the only operation that gives a SoA buffer a capacity)
EditGhosts ==
    /\ lightCapacity = 0 \/ editsInFrame < MaxEditsPerFrame
    /\ editsInFrame' = IF lightCapacity = 0 THEN 0 ELSE editsInFrame + 1
    /\ lastOp' = "edit" /\ prev' = PrevNone /\ plPre' = PlNone
    /\ gpuWritten' = {} /\ gpuDirty' = DirtyNone
    /\ UNCHANGED distIdx

AddEntity ==
    \E entity \in Entity :
        /\ Cardinality(Insert(mEntities, entity)) <= MaxSceneSize
        /\ mEntities' = Insert(mEntities, entity)
        /\ rt' = RtNone
        /\ EditGhosts
        /\ UNCHANGED <<mSkybox, alive, mRenderableData, renderableCapacity,
                       mLightData, lightCapacity, capVars>>

Remove ==
    \E entity \in Entity :
        /\ mEntities' = Erase(mEntities, entity)
        /\ rt' = RtNone
        /\ EditGhosts
        /\ UNCHANGED <<mSkybox, alive, mRenderableData, renderableCapacity,
                       mLightData, lightCapacity, capVars>>

SetSkybox ==
    \E skybox \in Skyboxes \cup {NullSkybox} :
        /\ Cardinality(SkyboxMembership(mEntities, mSkybox, skybox)) <= MaxSceneSize
        /\ mEntities' = SkyboxMembership(mEntities, mSkybox, skybox)
        /\ mSkybox' = skybox
        /\ rt' = IF skybox # NullSkybox
                 THEN [stage |-> 1, entities |-> mEntities, skybox |-> mSkybox,
                       arg |-> skybox]
                 ELSE IF rt.stage = 1 THEN [rt EXCEPT !.stage = 2] ELSE RtNone
        /\ EditGhosts
        /\ UNCHANGED <<alive, mRenderableData, renderableCapacity,
                       mLightData, lightCapacity, capVars>>

\* EntityManager::destroy, seen by prepare through em.isAlive(e)
DestroyEntity ==
    \E entity \in alive :
        /\ Cardinality(Entity \ alive) < MaxDestroyed
        /\ alive' = alive \ {entity}
        /\ rt' = RtNone
        /\ EditGhosts
        /\ UNCHANGED <<mEntities, mSkybox, mRenderableData, renderableCapacity,
                       mLightData, lightCapacity, capVars>>

CapIdle ==
    /\ capPc = "idle" /\ capN = 0 /\ capIter = 0 /\ capScene = 0 /\ capLight = 0
    /\ capSceneCap = 0 /\ capLightCap = 0 /\ capUnsafeOk = TRUE

\* the scene after FScene::FScene: no entity, no skybox, both SoA empty
SceneInit ==
    /\ mEntities = {} /\ mSkybox = NullSkybox /\ alive = Entity
    /\ mRenderableData = <<>> /\ renderableCapacity = 0
    /\ mLightData = <<>> /\ lightCapacity = 0
    /\ lastOp = "init" /\ editsInFrame = 0 /\ rt = RtNone /\ prev = PrevNone /\ plPre = PlNone
    /\ distIdx = {} /\ gpuWritten = {} /\ gpuDirty = DirtyNone

Init == SceneInit /\ CapIdle

Next ==
    \/ AddEntity
    \/ Remove
    \/ SetSkybox
    \/ DestroyEntity
    \/ Prepare
    \/ PrepareLights

Spec == Init /\ [][Next]_vars

\* --------------------------------------- prepare, row counts only
\* The same pass with the rows reduced to their number, one entity per step,
\* so that entity sets around the SIMD width of 16 are within reach.  The
\* entity's liveness and components are inputs of the step.

\* lines 71-87: the capacity, clear / setCapacity, resize(1)
CapBegin ==
    /\ capPc = "idle"
    /\ \E size \in 0..MaxCapEntities :
        LET capacity == RequiredCapacity(size)
        IN /\ capN' = size
           /\ capSceneCap' = GrowCapacity(capSceneCap, capacity)
           /\ capLightCap' = GrowCapacity(capLightCap, capacity)
    /\ capScene' = Len(Clear(<<>>))
    /\ capLight' = Len(ResetLightData(<<>>))
    /\ capIter' = 0
    /\ capUnsafeOk' = TRUE
    /\ capPc' = "loop"
    /\ UNCHANGED sceneVars

\* lines 93-153: one iteration of the loop
CapStep ==
    /\ capPc = "loop" /\ capIter < capN
    /\ \E isAlive, ri, ti, li, directional \in BOOLEAN :
        LET gathered == isAlive /\ (ri \/ li)
            pushRenderable == gathered /\ ri /\ ti
            pushLight == gathered /\ li /\ ~directional
        IN /\ capScene' = IF pushRenderable THEN capScene + 1 ELSE capScene
           /\ capLight' = IF pushLight THEN capLight + 1 ELSE capLight
           /\ capUnsafeOk' = (/\ capUnsafeOk
                              /\ pushRenderable => capScene < capSceneCap
                              /\ pushLight => capLight < capLightCap)
    /\ capIter' = capIter + 1
    /\ UNCHANGED <<capPc, capN, capSceneCap, capLightCap, sceneVars>>

\* the loop is over, prepare returns
CapEnd ==
    /\ capPc = "loop" /\ capIter = capN
    /\ capPc' = "idle"
    /\ UNCHANGED <<capN, capIter, capScene, capLight, capSceneCap, capLightCap,
                   capUnsafeOk, sceneVars>>

NextCap ==
    \/ CapBegin
    \/ CapStep
    \/ CapEnd

SpecCap == Init /\ [][NextCap]_vars

\* ------------------------------------------------------------ the claims
\* what the scene holds at this moment
AliveMembers == mEntities \cap alive
AliveDirectionals ==
    {e \in AliveMembers : LightInstance(e) # NullInstance
                          /\ isDirectionalLight(LightInstance(e))}
AliveLocals ==
    {e \in AliveMembers : LightInstance(e) # NullInstance
                          /\ ~isDirectionalLight(LightInstance(e))}
AliveRenderables ==
    {e \in AliveMembers : RenderableInstance(e) # NullInstance
                          /\ TransformInstance(e) # NullInstance}
MaxIntensityOf(D) ==
    {e \in D : \A f \in D : getIntensity(LightInstance(f)) <= getIntensity(LightInstance(e))}
LocalRows(lightData) == {lightData[i] : i \in 2..Len(lightData)}

\* C1: after prepare on a scene with alive directional lights, row 0 of
\* LightSoA holds the reference and the direction of a directional light of
\* maximum intensity (the one of maximum intensity when intensities are
\* pairwise distinct), whatever the iteration order was.
C1_MaxDirectionalRetained ==
    (lastOp = "prepare" /\ AliveDirectionals # {}) =>
        \E e \in MaxIntensityOf(AliveDirectionals) :
            /\ mLightData[1].li = LightInstance(e)
            /\ mLightData[1].direction = normalize(getLocalDirection(LightInstance(e)))

\* C2: when prepareLights is called with n > CONFIG_MAX_LIGHT_COUNT local rows
\* of pairwise distinct boundary distances, rows 1..k afterwards are exactly the
\* k rows of smallest boundary distance, each row intact, the others are gone
\* and row 0 is what it was.
C2_TruncationKeepsNearest ==
    LET pre == plPre.lightData
        dist(r) == BoundaryDistance(plPre.camera, r.positionRadius)
        locals == LocalRows(pre)
        nearest == {r \in locals :
                       Cardinality({q \in locals : dist(q) < dist(r)})
                           < CONFIG_MAX_LIGHT_COUNT}
    IN (/\ lastOp = "prepareLights"
        /\ Len(pre) > CONFIG_MAX_LIGHT_COUNT + DIRECTIONAL_LIGHTS_COUNT
        /\ \A q, r \in locals : q # r => dist(q) # dist(r))
       => /\ Len(mLightData) = CONFIG_MAX_LIGHT_COUNT + DIRECTIONAL_LIGHTS_COUNT
          /\ LocalRows(mLightData) = nearest
          /\ mLightData[1] = pre[1]

\* C3: after prepare the RenderableSoA has one row for each alive entity of the
\* set that has a renderable and a transform, and no other row.
C3_RenderableRowCount ==
    lastOp = "prepare" =>
        /\ Len(mRenderableData) = Cardinality(AliveRenderables)
        /\ {mRenderableData[i].ri : i \in 1..Len(mRenderableData)}
               = {RenderableInstance(e) : e \in AliveRenderables}

C3_Witness ==
    /\ lastOp = "prepare"
    /\ \E e \in mEntities \ alive :
           RenderableInstance(e) # NullInstance /\ TransformInstance(e) # NullInstance
    /\ \E e \in AliveMembers :
           RenderableInstance(e) # NullInstance /\ TransformInstance(e) = NullInstance
    /\ \E e \in AliveMembers : RenderableInstance(e) = NullInstance
    /\ Len(mRenderableData) = 1

\* C4: after prepare the LightSoA has 1 + (number of alive entities of the set
\* with a non-directional light) rows; directional lights add none.
C4_LightRowCount ==
    lastOp = "prepare" => Len(mLightData) = 1 + Cardinality(AliveLocals)

C4_Witness ==
    /\ lastOp = "prepare"
    /\ Cardinality(AliveDirectionals) = 2
    /\ \E e \in mEntities \ alive :
           LightInstance(e) # NullInstance /\ ~isDirectionalLight(LightInstance(e))
    /\ Len(mLightData) = 2

\* the entities of the skybox given to setSkybox and of the one it replaced
RoundTripSkyboxEntities ==
    {SkyboxEntity(s) : s \in {rt.arg, rt.skybox} \ {NullSkybox}}

\* C5 as stated: setSkybox(A) then setSkybox(null) leaves the entity set as it
\* was before setSkybox(A).
C5_RoundTripRestores ==
    rt.stage = 2 => mEntities = rt.entities

\* C5 amended: setSkybox(A) then setSkybox(null) leaves the entity set as it
\* was before setSkybox(A), less the entity of A and the entity of the skybox
\* that was registered then.
C5_RoundTripRemovesSkyboxEntities ==
    rt.stage = 2 => mEntities = rt.entities \ RoundTripSkyboxEntities

C5_Witness ==
    /\ rt.stage = 2
    /\ rt.skybox = NullSkybox
    /\ rt.entities # {}
    /\ SkyboxEntity(rt.arg) \notin rt.entities
    /\ mEntities = rt.entities

\* C6: the buffers after prepare are those of the scene at that call: row 0 is
\* zeroed when no alive directional light is in the set and belongs to one of
\* them otherwise, the local rows are the rows of the alive local lights of the
\* set, the renderable rows those of its alive renderables.
C6_RebuiltFromScratch ==
    lastOp = "prepare" =>
        /\ Len(mLightData) >= 1
        /\ AliveDirectionals = {} => mLightData[1] = ZeroLightRow
        /\ AliveDirectionals # {} =>
               mLightData[1].li \in {LightInstance(e) : e \in AliveDirectionals}
        /\ LocalRows(mLightData) =
               {[positionRadius |-> <<getWorldPosition(LightInstance(e)),
                                      getRadius(LightInstance(e))>>,
                 direction |-> IF ~isPointLight(LightInstance(e))
                                  \/ isIESLight(LightInstance(e))
                               THEN normalize(getLocalDirection(LightInstance(e)))
                               ELSE 0,
                 li |-> LightInstance(e)] : e \in AliveLocals}
        /\ {mRenderableData[i] : i \in 1..Len(mRenderableData)} =
               {[ri |-> RenderableInstance(e), worldTransform |-> TransformInstance(e)] :
                    e \in AliveRenderables}

C6_Witness ==
    /\ lastOp = "prepare"
    /\ prev.directional /\ prev.truncated
    /\ AliveDirectionals = {}
    /\ mLightData[1] = ZeroLightRow
    /\ Len(mLightData) > CONFIG_MAX_LIGHT_COUNT + DIRECTIONAL_LIGHTS_COUNT

\* C7 as stated: from construction onward the LightSoA has at least one row.
C7_DirectionalRowAlways ==
    Len(mLightData) >= 1

\* prepare has returned at least once: only prepare gives LightSoA a capacity
PrepareHasRun == lightCapacity > 0

\* C7 amended: once prepare has returned, the LightSoA has at least one row in
\* every state between operations.
C7_DirectionalRowAfterPrepare ==
    PrepareHasRun => Len(mLightData) >= 1

C7_Witness ==
    /\ PrepareHasRun
    /\ lastOp = "prepareLights"
    /\ distIdx # {}
    /\ Len(mLightData) = CONFIG_MAX_LIGHT_COUNT + DIRECTIONAL_LIGHTS_COUNT

\* C8: every index of distances[] that prepareLights uses lies in
\* [0, CONFIG_MAX_LIGHT_COUNT).
C8_DistanceIndicesInBounds ==
    distIdx \subseteq 0..(CONFIG_MAX_LIGHT_COUNT - 1)

\* C9: the range prepareLights marks dirty is the range of slots it wrote: it
\* starts at 0, has as many slots as local rows were packed, and ends within
\* the buffer's CONFIG_MAX_LIGHT_COUNT slots.
C9_DirtyRangeIsWrittenRange ==
    lastOp = "prepareLights" =>
        /\ gpuDirty.offset = 0
        /\ gpuDirty.count = Cardinality(gpuWritten)
        /\ gpuDirty.offset..(gpuDirty.offset + gpuDirty.count - 1) = gpuWritten
        /\ gpuDirty.offset + gpuDirty.count <= CONFIG_MAX_LIGHT_COUNT

\* the state part of C10
CapacitySuffices ==
    /\ capUnsafeOk
    /\ capScene <= capN /\ capLight <= capN + 1
    /\ capScene <= capSceneCap /\ capLight <= capLightCap
    /\ capPc = "loop" =>
           /\ capSceneCap >= capN + 1 /\ (capSceneCap - 1) % 16 = 0
           /\ capLightCap >= capN + 1 /\ (capLightCap - 1) % 16 = 0

\* C10: during prepare every unchecked append finds the buffer's length
\* strictly below its capacity, RenderableSoA never has more rows than the set
\* has entities, LightSoA never more than that plus one, both within the
\* capacity, and no step makes a capacity smaller.
C10_AppendsWithinCapacity ==
    /\ []CapacitySuffices
    /\ [][capSceneCap' >= capSceneCap /\ capLightCap' >= capLightCap]_vars

C10_Witness ==
    /\ capN = 16 /\ capIter = 16
    /\ capLight = 17 /\ capLightCap = 17
    /\ capScene = 16
    /\ capUnsafeOk

====
